---------------------------- MODULE Spec2Model ----------------------------
(***************************************************************************)
(* Checkout / order reconciliation of the OnSite shop.                     *)
(*                                                                         *)
(*   Order Initiation      src/app/api/checkout/route.ts   POST            *)
(*   Webhook (current)     src/unnamed/part_003            POST            *)
(*   Webhook (older)       src/app/api/webhook/route.ts    POST            *)
(*   Admin view            src/app/admin/orders/page.tsx   updateOrderStatus*)
(*   Cart totals           src/unnamed/part_001            calculateTotals *)
(*   Tables                src/unnamed/part_000, src/supabase/migrations   *)
(*                                                                         *)
(* Money is counted in cents.  Timestamps are readings of the clock `now`; *)
(* 0 stands for NULL.  An order's id is its position in `orders`; 0 stands *)
(* for the empty string that the metadata carries when no order was saved. *)
(* Every await on the database is one atomic step of a webhook invocation, *)
(* so that two invocations interleave exactly at their database calls.     *)
(* `response` is what the step just taken answered, if it answered.        *)
(* The deployment is taken to be configured (keys and secrets set), and    *)
(* either of the repository's two table definitions may be the one         *)
(* installed, either of its two webhook routes the one registered with the *)
(* processor.                                                              *)
(***************************************************************************)
EXTENDS Integers, Sequences, FiniteSets, TLC

(***************************************************************************)
(* Bounds of the model.                                                    *)
(***************************************************************************)
MaxNow == 2
MaxRequests == 3
MaxFaults == 1
MaxQuantity == 2
MaxCheckouts == 1

(***************************************************************************)
(* Program constants (cents).                                              *)
(***************************************************************************)
FREE_SHIPPING_THRESHOLD == 5000
SHIPPING_COST == 999

VARIABLES
    schema,       \* which of the repository's two table definitions is installed
    endpoint,     \* which of the two webhook routes the processor delivers to
    now,          \* Date.now() / new Date()
    orders,       \* table orders
    order_items,  \* table order_items
    sessions,     \* payment sessions opened by Order Initiation (their metadata)
    handlers,     \* webhook invocations in flight
    response,     \* the HTTP response the last step sent, or NoResponse
    requests,     \* number of requests (initiations, webhook deliveries, admin updates) so far
    faults,       \* number of transient database errors that struck a webhook call
    initiation,   \* what Order Initiation answered in the last step, or NoInitiation
    cart,         \* the cart store of the browser
    page          \* the page of the shop the browser was last sent to

vars == <<schema, endpoint, now, orders, order_items, sessions, handlers, response,
          requests, faults, initiation, cart, page>>

config == <<schema, endpoint>>

Handlers == {1, 2}
Schemas == {"schema", "migration001"}
Users == {"", "u1"}
Routes == {"stripe", "legacy"}
Signatures == {"missing", "invalid", "valid"}
EventTypes == {"checkout.session.completed", "payment_intent.payment_failed", "other"}
MetaTypes == {"shop_order", "other"}
AdminStatuses == {"pending", "paid", "shipped", "delivered", "cancelled"}

(***************************************************************************)
(* Carts handed to Order Initiation: the cart store's entries.             *)
(***************************************************************************)
CartItem(v, p, q) ==
    [product_id |-> v, variant_id |-> v, name |-> v, color |-> "c", size |-> "s",
     price |-> p, quantity |-> q, image |-> "img"]

Carts ==
    { <<CartItem("A", 1999, 2), CartItem("B", 499, 1)>> }

\* A cart whose only entry has quantity 0, as a client may post it.
CartsRefused ==
    { <<CartItem("A", 1999, 0)>> }

RECURSIVE SumLines(_)
SumLines(items) ==
    IF items = <<>> THEN 0
    ELSE Head(items).price * Head(items).quantity + SumLines(Tail(items))

\* A calculateTotals whose threshold is exclusive.
calculateTotalsExclusive(items) ==
    LET subtotal == SumLines(items)
        shipping == IF subtotal > FREE_SHIPPING_THRESHOLD THEN 0 ELSE SHIPPING_COST
    IN  [items |-> items, subtotal |-> subtotal, shipping |-> shipping,
         total |-> subtotal + shipping]

calculateTotals(items) ==
    LET subtotal == SumLines(items)
        shipping == IF subtotal >= FREE_SHIPPING_THRESHOLD THEN 0 ELSE SHIPPING_COST
    IN  [items |-> items, subtotal |-> subtotal, shipping |-> shipping,
         total |-> subtotal + shipping]

(***************************************************************************)
(* Request bodies of Order Initiation: the cart state as getCartForCheckout *)
(* returns it, a body with an empty item list, and a body without items.   *)
(***************************************************************************)
Bodies ==
    {calculateTotals(items) : items \in Carts \cup CartsRefused \cup {<<>>}}
        \cup {[subtotal |-> 0, shipping |-> 0, total |-> 0]}

\* Bodies that no cart store computed: the endpoint reads subtotal, shipping and
\* total off the request as they come.
BodiesUnchecked ==
    {[items |-> items, subtotal |-> SumLines(items), shipping |-> 0,
      total |-> SumLines(items) \div 2] : items \in Carts}

\* A check that lets an empty list through.
EmptyCartOnlyIfMissing(body) == "items" \notin DOMAIN body

\* !items || items.length === 0
EmptyCart(body) == "items" \notin DOMAIN body \/ Len(body.items) = 0

(***************************************************************************)
(* Order number: "OS-" followed by the clock in base 36, most significant  *)
(* digit first.                                                            *)
(***************************************************************************)
RECURSIVE Base36(_)
Base36(n) == IF n < 36 THEN <<n>> ELSE Append(Base36(n \div 36), n % 36)

OrderNumber(t) == <<"OS-">> \o Base36(t)

(***************************************************************************)
(* The item list of the metadata bundle: every cart entry without its      *)
(* image, in cart order.                                                   *)
(***************************************************************************)
MetadataItems(items) ==
    [k \in 1..Len(items) |->
        [product_id |-> items[k].product_id, variant_id |-> items[k].variant_id,
         name |-> items[k].name, quantity |-> items[k].quantity,
         price |-> items[k].price, size |-> items[k].size, color |-> items[k].color]]

(***************************************************************************)
(* Table constraints.                                                      *)
(***************************************************************************)
UserIdNotNull == schema = "migration001"

\* The orders table as a schema with a cancelled_at column would have it.
OrdersColumnsWithCancelledAt ==
    {"id", "user_id", "order_number", "status", "subtotal", "shipping", "tax", "total",
     "shipping_address", "stripe_session_id", "stripe_payment_intent_id", "notes",
     "paid_at", "shipped_at", "delivered_at", "cancelled_at", "created_at", "updated_at"}

OrdersColumns ==
    {"id", "user_id", "order_number", "status", "subtotal", "shipping", "tax", "total",
     "shipping_address", "stripe_session_id", "stripe_payment_intent_id", "notes",
     "paid_at", "shipped_at", "delivered_at", "created_at", "updated_at"}

OrderNumberTaken(num) == \E o \in 1..Len(orders) : orders[o].order_number = num

OrderExists(id) == id \in 1..Len(orders)

\* A transient database error may strike any call of the webhook while the
\* budget lasts.
FaultChoices == IF faults < MaxFaults THEN {FALSE, TRUE} ELSE {FALSE}

InsertOrderRejected(user, num) ==
    \/ UserIdNotNull /\ user = ""
    \/ OrderNumberTaken(num)

UpdateRejected(columns) == ~(columns \subseteq OrdersColumns)

NewOrder(user, num, status, subtotal, shipping, total, paid, sid) ==
    [user_id |-> user, order_number |-> num, status |-> status,
     subtotal |-> subtotal, shipping |-> shipping, tax |-> 0, total |-> total,
     paid_at |-> paid, shipped_at |-> 0, delivered_at |-> 0,
     stripe_session_id |-> sid, stripe_payment_intent_id |-> sid]

Idle ==
    [pc |-> "idle", sig |-> "valid", etype |-> "other", mtype |-> "other",
     sid |-> 0, oid |-> 0, writes |-> 0, failed |-> FALSE, raced |-> FALSE]

NoResponse ==
    [status |-> 0, sig |-> "valid", etype |-> "other", mtype |-> "other",
     sid |-> 0, oid |-> 0, writes |-> 0, failed |-> FALSE, raced |-> FALSE]

\* The response that ends invocation r.  sid and oid name the session and the
\* order the invocation worked on; they are 0 when it made no database call.
\* writes counts its database calls, failed tells that one of them returned an
\* error, raced that another invocation was in flight together with it.
Respond(r, status) ==
    [status |-> status, sig |-> r.sig, etype |-> r.etype, mtype |-> r.mtype,
     sid |-> r.sid, oid |-> r.oid, writes |-> r.writes, failed |-> r.failed,
     raced |-> r.raced]

NoInitiation ==
    [status |-> 0, empty |-> FALSE, items |-> <<>>, order |-> 0, orderError |-> FALSE,
     refused |-> FALSE, session |-> 0]

\* The browser on the shop's front page, with no session_id in the address.
ShopPage == [name |-> "shop", session_id |-> 0]

\* The cart store before anything was added.
EmptyStore == [items |-> <<>>, subtotal |-> 0, shipping |-> 0, total |-> 0]

Init ==
    /\ schema \in Schemas
    /\ endpoint \in Routes
    /\ now = 1
    /\ orders = <<>>
    /\ order_items = <<>>
    /\ sessions = <<>>
    /\ handlers = [h \in Handlers |-> Idle]
    /\ response = NoResponse
    /\ requests = 0
    /\ faults = 0
    /\ initiation = NoInitiation
    /\ cart = EmptyStore
    /\ page = ShopPage

Tick ==
    /\ now < MaxNow
    /\ now' = now + 1
    /\ response' = NoResponse
    /\ initiation' = NoInitiation
    /\ UNCHANGED <<config, cart, page, orders, order_items, sessions, handlers, requests, faults>>

(***************************************************************************)
(* Order Initiation.  The order number is read off the clock; the pending  *)
(* order is inserted; whether or not that worked, the payment session is   *)
(* requested with the metadata bundle.  When the processor refuses, the    *)
(* request ends in the catch block and whatever was inserted stays.        *)
(* fault: the insert met a transient database error.                       *)
(***************************************************************************)
SessionAmount(items, shipping) == SumLines(items) + (IF shipping > 0 THEN shipping ELSE 0)

\* A processor that takes any line items.
LineItemsAcceptedAny(items) == TRUE

\* The processor takes line items only when each quantity is at least 1.
LineItemsAccepted(items) == \A k \in 1..Len(items) : items[k].quantity >= 1

\* Metadata without the discriminator.
SessionMetadataUntyped(order, orderNumber, user, items, amount) ==
    [order_id |-> order, order_number |-> orderNumber, user_id |-> user, type |-> "",
     items |-> MetadataItems(items), parses |-> TRUE, amount_total |-> amount]

\* The session as the webhook will see it: the metadata bundle and the amount.
\* items is the list that metadata.items spells out; parses tells whether
\* JSON.parse returns it (it does for what JSON.stringify wrote).
SessionMetadata(order, orderNumber, user, items, amount) ==
    [order_id |-> order, order_number |-> orderNumber, user_id |-> user,
     type |-> "shop_order", items |-> MetadataItems(items), parses |-> TRUE,
     amount_total |-> amount]

Checkout(body, user, fault, stripeOk) ==
    IF EmptyCart(body)
    THEN /\ requests < MaxRequests
         /\ requests' = requests + 1
         /\ initiation' = [NoInitiation EXCEPT !.status = 400, !.empty = TRUE]
         /\ response' = NoResponse
         /\ UNCHANGED <<config, cart, page, now, orders, order_items, sessions, handlers, faults>>
    ELSE LET items == body.items
             orderNumber == OrderNumber(now)
             orderError == fault \/ InsertOrderRejected(user, orderNumber)
             order == IF orderError THEN 0 ELSE Len(orders) + 1
             created == stripeOk /\ LineItemsAccepted(items)
         IN  /\ requests < MaxRequests
             /\ requests' = requests + 1
             /\ orders' = IF orderError THEN orders
                          ELSE Append(orders, NewOrder(user, orderNumber, "pending",
                                       body.subtotal, body.shipping, body.total, 0, 0))
             /\ sessions' = IF created
                            THEN Append(sessions,
                                     SessionMetadata(order, orderNumber, user, items,
                                         SessionAmount(items, body.shipping)))
                            ELSE sessions
             /\ initiation' = [status |-> IF created THEN 200 ELSE 500,
                               empty |-> items = <<>>,
                               items |-> items, order |-> order, orderError |-> orderError,
                               refused |-> ~created,
                               session |-> IF created THEN Len(sessions) + 1 ELSE 0]
             /\ response' = NoResponse
             /\ UNCHANGED <<config, cart, page, now, order_items, handlers, faults>>

(***************************************************************************)
(* Webhook.  A request carries a signature header and an event; the event  *)
(* is of some type and its object carries metadata: that of a session this *)
(* shop opened when mtype is "shop_order", that of another payment flow    *)
(* sharing the endpoint otherwise.                                         *)
(***************************************************************************)
Meta(h) == sessions[handlers[h].sid]

\* A handler that only insists on the header being there.
VerifySignaturePresentOnly(sig) == sig # "missing"

\* stripe.webhooks.constructEvent throws unless the header matches the raw body.
VerifySignature(sig) == sig = "valid"

\* A handler that forgets the discriminator.
IsShopOrderUnchecked(mtype) == TRUE

IsShopOrder(mtype) == mtype = "shop_order"

\* Where the handler goes after verification: its first database call, or "done".
Dispatch(etype, mtype, orderId) ==
    IF etype = "checkout.session.completed" /\ IsShopOrder(mtype)
    THEN IF orderId # 0 THEN "update"
         ELSE IF endpoint = "stripe" THEN "create" ELSE "done"
    ELSE IF endpoint = "stripe" /\ etype = "payment_intent.payment_failed"
            /\ IsShopOrder(mtype) /\ orderId # 0
         THEN "cancel"
         ELSE "done"

\* Invocations are interchangeable: a request takes the first free one.
FreeHandler(h) ==
    /\ handlers[h].pc = "idle"
    /\ \A g \in Handlers : g < h => handlers[g].pc # "idle"

AllIdle == \A h \in Handlers : handlers[h].pc = "idle"

\* A request that fails verification never yields an event: nothing of its body
\* is known to the handler.
Receive(h, sig, etype, mtype, sid) ==
    LET verified == VerifySignature(sig)
        pc == IF verified THEN Dispatch(etype, mtype, sessions[sid].order_id) ELSE "done"
        r == IF verified
             THEN [pc |-> pc, sig |-> sig, etype |-> etype, mtype |-> mtype, sid |-> sid,
                   oid |-> sessions[sid].order_id, writes |-> 0, failed |-> FALSE,
                   raced |-> ~AllIdle]
             ELSE [Idle EXCEPT !.pc = pc, !.sig = sig]
    IN  /\ FreeHandler(h)
        /\ requests < MaxRequests
        /\ requests' = requests + 1
        /\ handlers' = IF pc = "done" THEN handlers
                       ELSE [g \in Handlers |->
                               IF g = h THEN r
                               ELSE IF handlers[g].pc = "idle" THEN handlers[g]
                               ELSE [handlers[g] EXCEPT !.raced = TRUE]]
        /\ response' = IF pc # "done" THEN NoResponse
                       ELSE Respond([r EXCEPT !.sid = 0, !.oid = 0, !.raced = FALSE],
                                    IF verified THEN 200 ELSE 400)
        /\ initiation' = NoInitiation
        /\ UNCHANGED <<config, cart, page, now, orders, order_items, sessions, faults>>

\* An update that also rewrites the amounts, dropping the shipping charge.
MarkPaidRecomputed(o, sid) ==
    [o EXCEPT !.status = "paid", !.paid_at = now, !.stripe_payment_intent_id = sid,
              !.shipping = 0, !.total = o.subtotal]

\* The row an update of the paid fields leaves behind.
MarkPaid(o, sid) ==
    IF endpoint = "stripe"
    THEN [o EXCEPT !.status = "paid", !.paid_at = now,
                   !.stripe_session_id = sid, !.stripe_payment_intent_id = sid]
    ELSE [o EXCEPT !.status = "paid", !.paid_at = now, !.stripe_payment_intent_id = sid]

UpdateOrder(h, fault) ==
    LET r == handlers[h]
        hit == ~fault /\ OrderExists(r.oid)
    IN  /\ r.pc = "update"
        /\ orders' = IF hit THEN [orders EXCEPT ![r.oid] = MarkPaid(@, r.sid)]
                     ELSE orders
        /\ handlers' = [handlers EXCEPT ![h].pc = "items",
                                        ![h].writes = @ + 1,
                                        ![h].failed = @ \/ fault]
        /\ faults' = IF fault THEN faults + 1 ELSE faults
        /\ response' = NoResponse
        /\ initiation' = NoInitiation
        /\ UNCHANGED <<config, cart, page, now, order_items, sessions, requests>>

\* Fallback: the order is built from the metadata items and the session's amount.
FallbackOrder(m, sid) ==
    LET subtotal == SumLines(m.items)
        shipping == IF m.amount_total # 0 THEN m.amount_total - subtotal ELSE 0
    IN  NewOrder(m.user_id, m.order_number, "paid", subtotal,
                 IF shipping > 0 THEN shipping ELSE 0,
                 IF m.amount_total # 0 THEN m.amount_total ELSE subtotal,
                 now, sid)

CreateOrder(h, fault) ==
    LET r == handlers[h]
        m == Meta(h)
        createError == fault \/ InsertOrderRejected(m.user_id, m.order_number)
        after == [r EXCEPT !.writes = @ + 1, !.failed = @ \/ createError,
                           !.oid = IF createError THEN 0 ELSE Len(orders) + 1]
    IN  /\ r.pc = "create"
        /\ IF ~m.parses
           THEN \* JSON.parse throws before the insert: caught, logged, answered
                /\ ~fault
                /\ orders' = orders
                /\ handlers' = [handlers EXCEPT ![h] = Idle]
                /\ response' = Respond(r, 200)
           ELSE /\ orders' = IF createError THEN orders
                             ELSE Append(orders, FallbackOrder(m, r.sid))
                /\ handlers' = [handlers EXCEPT ![h] =
                                  IF createError THEN Idle ELSE [after EXCEPT !.pc = "items"]]
                /\ response' = IF createError THEN Respond(after, 200) ELSE NoResponse
        /\ faults' = IF fault THEN faults + 1 ELSE faults
        /\ initiation' = NoInitiation
        /\ UNCHANGED <<config, cart, page, now, order_items, sessions, requests>>

\* One order_items row per metadata item; the older route leaves size and color out.
OrderItemRows(orderId, items) ==
    [k \in 1..Len(items) |->
        [order_id |-> orderId, product_id |-> items[k].product_id,
         variant_id |-> items[k].variant_id, product_name |-> items[k].name,
         quantity |-> items[k].quantity, unit_price |-> items[k].price,
         total_price |-> items[k].price * items[k].quantity,
         size |-> IF endpoint = "stripe" THEN items[k].size ELSE "",
         color |-> IF endpoint = "stripe" THEN items[k].color ELSE ""]]

\* order_items.order_id references orders(id); nothing else constrains a row.
InsertItemsRejected(orderId) == ~OrderExists(orderId)

InsertItems(h, fault) ==
    LET r == handlers[h]
        itemsError == fault \/ InsertItemsRejected(r.oid)
        after == [r EXCEPT !.writes = @ + 1, !.failed = @ \/ itemsError]
    IN  /\ r.pc = "items"
        /\ IF ~Meta(h).parses
           THEN \* JSON.parse throws before the insert: caught, logged, answered
                /\ ~fault
                /\ order_items' = order_items
                /\ response' = Respond(r, 200)
           ELSE /\ order_items' = IF itemsError THEN order_items
                                  ELSE order_items \o OrderItemRows(r.oid, Meta(h).items)
                /\ response' = Respond(after, 200)
        /\ handlers' = [handlers EXCEPT ![h] = Idle]
        /\ faults' = IF fault THEN faults + 1 ELSE faults
        /\ initiation' = NoInitiation
        /\ UNCHANGED <<config, cart, page, now, orders, sessions, requests>>

\* payment_intent.payment_failed: the update names status and cancelled_at.
CancelOrder(h, fault) ==
    LET r == handlers[h]
        error == fault \/ UpdateRejected({"status", "cancelled_at"})
        hit == ~error /\ OrderExists(r.oid)
        after == [r EXCEPT !.writes = @ + 1, !.failed = @ \/ error]
    IN  /\ r.pc = "cancel"
        /\ orders' = IF hit THEN [orders EXCEPT ![r.oid].status = "cancelled"] ELSE orders
        /\ handlers' = [handlers EXCEPT ![h] = Idle]
        /\ response' = Respond(after, 200)
        /\ faults' = IF fault THEN faults + 1 ELSE faults
        /\ initiation' = NoInitiation
        /\ UNCHANGED <<config, cart, page, now, order_items, sessions, requests>>

(***************************************************************************)
(* Admin view: one update of the status and of the timestamp that goes     *)
(* with it.  The page still names the table by its former name,            *)
(* app_shop_orders; it is the orders table.                                *)
(***************************************************************************)
StatusColumns(newStatus) ==
    {"status"} \cup (IF newStatus = "shipped" THEN {"shipped_at"}
                     ELSE IF newStatus = "delivered" THEN {"delivered_at"}
                     ELSE IF newStatus = "cancelled" THEN {"cancelled_at"}
                     ELSE {})

\* An update that stamps paid_at when the new status is paid.
updateOrderStatusStampingPaid(orderId, newStatus) ==
    LET error == UpdateRejected(StatusColumns(newStatus))
    IN  /\ requests < MaxRequests
        /\ requests' = requests + 1
        /\ OrderExists(orderId)
        /\ orders' = IF error THEN orders
                     ELSE [orders EXCEPT ![orderId] =
                            [@ EXCEPT !.status = newStatus,
                                      !.paid_at = IF newStatus = "paid" THEN now ELSE @,
                                      !.shipped_at = IF newStatus = "shipped" THEN now ELSE @,
                                      !.delivered_at =
                                          IF newStatus = "delivered" THEN now ELSE @]]
        /\ response' = NoResponse
        /\ initiation' = NoInitiation
        /\ UNCHANGED <<config, cart, page, now, order_items, sessions, handlers, faults>>

updateOrderStatus(orderId, newStatus) ==
    LET error == UpdateRejected(StatusColumns(newStatus))
    IN  /\ requests < MaxRequests
        /\ requests' = requests + 1
        /\ OrderExists(orderId)
        /\ orders' = IF error THEN orders
                     ELSE [orders EXCEPT ![orderId] =
                            [@ EXCEPT !.status = newStatus,
                                      !.shipped_at = IF newStatus = "shipped" THEN now ELSE @,
                                      !.delivered_at =
                                          IF newStatus = "delivered" THEN now ELSE @]]
        /\ response' = NoResponse
        /\ initiation' = NoInitiation
        /\ UNCHANGED <<config, cart, page, now, order_items, sessions, handlers, faults>>

Next ==
    \/ Tick
    \/ \E body \in Bodies, user \in Users, fault \in BOOLEAN, stripeOk \in BOOLEAN :
          Checkout(body, user, fault, stripeOk)
    \/ \E h \in Handlers, sig \in Signatures, etype \in EventTypes,
          mtype \in MetaTypes, sid \in 1..Len(sessions) :
          Receive(h, sig, etype, mtype, sid)
    \/ \E h \in Handlers, fault \in FaultChoices : UpdateOrder(h, fault)
    \/ \E h \in Handlers, fault \in FaultChoices : CreateOrder(h, fault)
    \/ \E h \in Handlers, fault \in FaultChoices : InsertItems(h, fault)
    \/ \E h \in Handlers, fault \in FaultChoices : CancelOrder(h, fault)
    \/ \E o \in 1..Len(orders), s \in AdminStatuses : updateOrderStatus(o, s)

Spec == Init /\ [][Next]_vars

(***************************************************************************)
(* The same system when the processor delivers one event at a time: a      *)
(* request arrives only after the previous invocation has answered.        *)
(***************************************************************************)
NextSequential ==
    \/ Tick
    \/ \E body \in Bodies, user \in Users, fault \in BOOLEAN, stripeOk \in BOOLEAN :
          Checkout(body, user, fault, stripeOk)
    \/ \E h \in Handlers, sig \in Signatures, etype \in EventTypes,
          mtype \in MetaTypes, sid \in 1..Len(sessions) :
          AllIdle /\ Receive(h, sig, etype, mtype, sid)
    \/ \E h \in Handlers, fault \in FaultChoices : UpdateOrder(h, fault)
    \/ \E h \in Handlers, fault \in FaultChoices : CreateOrder(h, fault)
    \/ \E h \in Handlers, fault \in FaultChoices : InsertItems(h, fault)
    \/ \E h \in Handlers, fault \in FaultChoices : CancelOrder(h, fault)
    \/ \E o \in 1..Len(orders), s \in AdminStatuses : updateOrderStatus(o, s)

SpecSequential == Init /\ [][NextSequential]_vars

(***************************************************************************)
(* Initiation and reconciliation alone, while the admin view changes       *)
(* nothing: deliveries may overlap.                                        *)
(***************************************************************************)
NextPayments ==
    \/ Tick
    \/ \E body \in Bodies, user \in Users, fault \in BOOLEAN, stripeOk \in BOOLEAN :
          Checkout(body, user, fault, stripeOk)
    \/ \E h \in Handlers, sig \in Signatures, etype \in EventTypes,
          mtype \in MetaTypes, sid \in 1..Len(sessions) :
          Receive(h, sig, etype, mtype, sid)
    \/ \E h \in Handlers, fault \in FaultChoices : UpdateOrder(h, fault)
    \/ \E h \in Handlers, fault \in FaultChoices : CreateOrder(h, fault)
    \/ \E h \in Handlers, fault \in FaultChoices : InsertItems(h, fault)
    \/ \E h \in Handlers, fault \in FaultChoices : CancelOrder(h, fault)

SpecPayments == Init /\ [][NextPayments]_vars

(***************************************************************************)
(* The same endpoints under any input they accept: request bodies that no  *)
(* cart store computed, and payment-succeeded events of shop_order sessions *)
(* that another party opened on the same processor account (the Auth Hub   *)
(* of AUTH_HUB_CONTRACT.md).  Such a session may name an order that is not  *)
(* on file, carry items that do not parse, or an amount below the items'   *)
(* subtotal.  Events are delivered one at a time.                          *)
(***************************************************************************)
NoSuchOrder == 0 - 1

ForeignNumber(n) == <<"OSC-">> \o Base36(n)

ForeignSession(items, orderId, parses, amount) ==
    /\ requests < MaxRequests
    /\ requests' = requests + 1
    /\ sessions' = Append(sessions,
          [SessionMetadata(orderId, ForeignNumber(Len(sessions) + 1), "u1", items, amount)
              EXCEPT !.parses = parses])
    /\ response' = NoResponse
    /\ initiation' = NoInitiation
    /\ UNCHANGED <<config, cart, page, now, orders, order_items, handlers, faults>>

NextEvents ==
    \/ Tick
    \/ \E body \in Bodies \cup BodiesUnchecked, user \in Users, fault \in BOOLEAN,
          stripeOk \in BOOLEAN :
          Checkout(body, user, fault, stripeOk)
    \/ \E items \in Carts, orderId \in {0, NoSuchOrder} \cup 1..Len(orders),
          parses \in BOOLEAN :
          \E amount \in {SessionAmount(items, SHIPPING_COST), SumLines(items) \div 2} :
             ForeignSession(items, orderId, parses, amount)
    \/ \E h \in Handlers, etype \in EventTypes, sid \in 1..Len(sessions) :
          AllIdle /\ Receive(h, "valid", etype, "shop_order", sid)
    \/ \E h \in Handlers, fault \in FaultChoices : UpdateOrder(h, fault)
    \/ \E h \in Handlers, fault \in FaultChoices : CreateOrder(h, fault)
    \/ \E h \in Handlers, fault \in FaultChoices : InsertItems(h, fault)
    \/ \E h \in Handlers, fault \in FaultChoices : CancelOrder(h, fault)

SpecEvents == Init /\ [][NextEvents]_vars

(***************************************************************************)
(* The cart store.  Every operation computes the next store state from the *)
(* current one; set() installs it.  A quantity of 0 handed to addItem      *)
(* stands for a quantity that is 0 or not given: the code reads            *)
(* item.quantity || 1.                                                     *)
(***************************************************************************)
Variants == {"A", "B", "C", "D"}

Price(v) == CASE v = "A" -> 1999 [] v = "B" -> 499 [] v = "C" -> 2501 [] OTHER -> 1

InCart(items, v) == \E k \in 1..Len(items) : items[k].variant_id = v

\* An addItem that never looks for the variant.
addItemAlwaysAppends(state, item, quantity) ==
    calculateTotals(Append(state.items,
        [item EXCEPT !.quantity = IF quantity # 0 THEN quantity ELSE 1]))

addItem(state, item, quantity) ==
    LET added == IF quantity # 0 THEN quantity ELSE 1
        newItems ==
            IF InCart(state.items, item.variant_id)
            THEN [k \in 1..Len(state.items) |->
                    IF state.items[k].variant_id = item.variant_id
                    THEN [state.items[k] EXCEPT !.quantity = @ + added]
                    ELSE state.items[k]]
            ELSE Append(state.items, [item EXCEPT !.quantity = added])
    IN  calculateTotals(newItems)

removeItem(state, variant_id) ==
    calculateTotals(SelectSeq(state.items, LAMBDA i : i.variant_id # variant_id))

\* An updateQuantity that writes whatever quantity it is given.
updateQuantityNeverRemoves(state, variant_id, quantity) ==
    calculateTotals([k \in 1..Len(state.items) |->
        IF state.items[k].variant_id = variant_id
        THEN [state.items[k] EXCEPT !.quantity = quantity]
        ELSE state.items[k]])

updateQuantity(state, variant_id, quantity) ==
    IF quantity <= 0
    THEN calculateTotals(SelectSeq(state.items, LAMBDA i : i.variant_id # variant_id))
    ELSE calculateTotals([k \in 1..Len(state.items) |->
            IF state.items[k].variant_id = variant_id
            THEN [state.items[k] EXCEPT !.quantity = quantity]
            ELSE state.items[k]])

clearCart == EmptyStore

\* What the store's operations leave alone.
Backend == <<config, now, orders, order_items, sessions, handlers, response, requests,
             faults, initiation, page>>

Within(state) == \A k \in 1..Len(state.items) : state.items[k].quantity <= MaxQuantity

AddItem(v, quantity) ==
    /\ Within(addItem(cart, CartItem(v, Price(v), 0), quantity))
    /\ cart' = addItem(cart, CartItem(v, Price(v), 0), quantity)
    /\ UNCHANGED Backend

RemoveItem(v) ==
    /\ cart' = removeItem(cart, v)
    /\ UNCHANGED Backend

UpdateQuantity(v, quantity) ==
    /\ cart' = updateQuantity(cart, v, quantity)
    /\ UNCHANGED Backend

ClearCart ==
    /\ cart' = clearCart
    /\ UNCHANGED Backend

NextCart ==
    \/ \E v \in Variants, quantity \in 0..MaxQuantity : AddItem(v, quantity)
    \/ \E v \in Variants : RemoveItem(v)
    \/ \E v \in Variants, quantity \in -1..MaxQuantity : UpdateQuantity(v, quantity)
    \/ ClearCart

SpecCart == Init /\ [][NextCart]_vars

(***************************************************************************)
(* The browser through a checkout.  handleCheckout posts the store's state *)
(* to Order Initiation and, by the answer, leaves for the processor's page *)
(* or shows the error; the processor sends the browser back to the success *)
(* page with the session id in the address, or to the cart page when the   *)
(* customer gives up.  The success page can also be opened without a       *)
(* session id.  The cart holds entries of one variant.                     *)
(***************************************************************************)
getCartForCheckout(state) ==
    [items |-> state.items, subtotal |-> state.subtotal, shipping |-> state.shipping,
     total |-> state.total]

handleCheckout(user, stripeOk) ==
    /\ cart.items # <<>>
    /\ requests < MaxCheckouts
    /\ Checkout(getCartForCheckout(cart), user, FALSE, stripeOk)

\* fetch rejects: the request never reached the endpoint.
NetworkFailure ==
    /\ cart.items # <<>>
    /\ requests < MaxCheckouts
    /\ requests' = requests + 1
    /\ initiation' = NoInitiation
    /\ response' = NoResponse
    /\ UNCHANGED <<config, cart, page, now, orders, order_items, sessions, handlers, faults>>

\* A success page that clears the cart whatever its address carries.
SuccessRedirectAlwaysClears(sessionId) ==
    /\ page' = [name |-> "success", session_id |-> sessionId]
    /\ cart' = clearCart
    /\ initiation' = NoInitiation
    /\ response' = NoResponse
    /\ UNCHANGED <<config, now, orders, order_items, sessions, handlers, requests, faults>>

SuccessRedirect(sessionId) ==
    /\ page' = [name |-> "success", session_id |-> sessionId]
    /\ cart' = IF sessionId # 0 THEN clearCart ELSE cart
    /\ initiation' = NoInitiation
    /\ response' = NoResponse
    /\ UNCHANGED <<config, now, orders, order_items, sessions, handlers, requests, faults>>

CancelRedirect ==
    /\ sessions # <<>>
    /\ page' = [name |-> "cart", session_id |-> 0]
    /\ initiation' = NoInitiation
    /\ response' = NoResponse
    /\ UNCHANGED <<config, cart, now, orders, order_items, sessions, handlers, requests,
                   faults>>

NextClient ==
    \/ \E quantity \in 0..MaxQuantity : AddItem("A", quantity)
    \/ RemoveItem("A")
    \/ \E user \in Users, stripeOk \in BOOLEAN : handleCheckout(user, stripeOk)
    \/ NetworkFailure
    \/ \E sessionId \in 0..Len(sessions) : SuccessRedirect(sessionId)
    \/ CancelRedirect

SpecClient == Init /\ [][NextClient]_vars

(***************************************************************************)
(* Properties.                                                             *)
(***************************************************************************)
Orders == 1..Len(orders)
Sessions == 1..Len(sessions)

ItemsOf(o) == SelectSeq(order_items, LAMBDA row : row.order_id = o)

Completed == "checkout.session.completed"
Failed == "payment_intent.payment_failed"

\* The last step answered an authentic payment-succeeded event of this shop.
AnsweredPaid ==
    /\ response.status # 0
    /\ response.sig = "valid"
    /\ response.etype = Completed
    /\ response.mtype = "shop_order"
    /\ response.sid \in Sessions

\* A step of a webhook invocation.
WebhookStep == handlers' # handlers \/ response' # NoResponse

\* C1: for an order that Order Initiation saved, however many times the
\* payment-succeeded event is delivered one after the other, its order_items are
\* either still absent or exactly one row per metadata item.
C1_ItemsCreatedOnce ==
    \A s \in Sessions :
        LET o == sessions[s].order_id
        IN  o # 0 => ItemsOf(o) \in {<<>>, OrderItemRows(o, sessions[s].items)}

\* C2: once an order's paid_at is written, no later step writes another value.
C2_PaidAtWrittenOnce ==
    [][\A o \in Orders : orders[o].paid_at # 0 => orders'[o].paid_at = orders[o].paid_at]_vars

C4_StatusChangesOnlyFromPending ==
    [][WebhookStep =>
        \A o \in Orders :
            orders[o].status # "pending" => orders'[o].status = orders[o].status]_vars

\* C5: when an invocation that raced another one has answered a payment-succeeded
\* event, no invocation is left in flight and no database call failed, the order
\* is paid with exactly one row per metadata item, and on the fallback path
\* exactly one order carries the order number.
C5_ConcurrentDeliveryOnce ==
    (AnsweredPaid /\ response.raced /\ AllIdle /\ faults = 0 /\ ~response.failed) =>
        LET m == sessions[response.sid]
            withNumber == {o \in Orders : orders[o].order_number = m.order_number}
        IN  IF m.order_id # 0
            THEN /\ orders[m.order_id].status = "paid"
                 /\ ItemsOf(m.order_id) = OrderItemRows(m.order_id, m.items)
            ELSE /\ Cardinality(withNumber) = 1
                 /\ \A o \in withNumber : ItemsOf(o) = OrderItemRows(o, m.items)

\* An order with the session's number that the fallback of that session did not
\* create.
ForeignOrderWithNumber(s) ==
    \E o \in Orders : /\ orders[o].order_number = sessions[s].order_number
                      /\ orders[o].stripe_session_id # s

\* C6: after a payment-succeeded event with an empty order_id, for which no order
\* existed, has been answered, with no invocation left in flight and no transient
\* database error, exactly one
\* order carries the metadata's order number; it is paid, its items are the
\* metadata items one to one and its subtotal is the sum of price x quantity.
C6_FallbackCreatesOneOrder ==
    (/\ AnsweredPaid
     /\ AllIdle
     /\ endpoint = "stripe"
     /\ sessions[response.sid].order_id = 0
     /\ ~ForeignOrderWithNumber(response.sid)
     /\ faults = 0) =>
        LET m == sessions[response.sid]
            withNumber == {o \in Orders : orders[o].order_number = m.order_number}
        IN  /\ Cardinality(withNumber) = 1
            /\ \A o \in withNumber :
                  /\ orders[o].status = "paid"
                  /\ ItemsOf(o) = OrderItemRows(o, m.items)
                  /\ orders[o].subtotal = SumLines(m.items)

\* C7: after the payment-succeeded event of a session that Order Initiation opened
\* without saving the order has been answered, with no invocation left in flight
\* and no transient database error, a paid order with the session's order number
\* exists.
C7_UnsavedOrderIsReconstructed ==
    (/\ AnsweredPaid
     /\ AllIdle
     /\ endpoint = "stripe"
     /\ sessions[response.sid].order_id = 0
     /\ faults = 0) =>
        \E o \in Orders : /\ orders[o].order_number = sessions[response.sid].order_number
                          /\ orders[o].status = "paid"

\* C8: a request whose signature header is missing or does not verify is answered
\* 400 without a database call, and no invocation reaches a database call with
\* such a request.
C8_BadSignatureRejected ==
    /\ (response.status # 0 /\ response.sig # "valid") =>
            (response.status = 400 /\ response.writes = 0)
    /\ \A h \in Handlers : handlers[h].pc # "idle" => handlers[h].sig = "valid"

\* C8 witness: with an order on file, a request with a wrong signature has just
\* been answered 400.
C8_Witness ==
    /\ response.status = 400
    /\ response.sig = "invalid"
    /\ orders # <<>>

\* C9: an authentic event that is not of this shop (another discriminator) or of
\* a type the handler does not know is answered 200 without a database call, and
\* no invocation reaches a database call with such an event.
Irrelevant(r) == r.mtype # "shop_order" \/ r.etype \notin {Completed, Failed}

C9_ForeignEventIgnored ==
    /\ (response.status # 0 /\ response.sig = "valid" /\ Irrelevant(response)) =>
            (response.status = 200 /\ response.writes = 0)
    /\ \A h \in Handlers : handlers[h].pc # "idle" => ~Irrelevant(handlers[h])

\* C9 witness: with a pending order on file, a checkout-completed event of
\* another payment flow has just been answered 200.
C9_Witness ==
    /\ response.status = 200
    /\ response.sig = "valid"
    /\ response.etype = Completed
    /\ response.mtype = "other"
    /\ \E o \in Orders : orders[o].status = "pending"

\* C10: an invocation one of whose database calls failed does not answer 2xx.
C10_FailedWriteNotAcknowledged ==
    (response.status # 0 /\ response.failed) => response.status \notin 200..299

\* C11: no two payment sessions carry the same order number in their metadata,
\* and no two orders carry the same order number, however close in time the
\* initiations were.
C11_OrderNumbersDistinct ==
    /\ \A s, t \in Sessions :
          s # t => sessions[s].order_number # sessions[t].order_number
    /\ \A o, p \in Orders : o # p => orders[o].order_number # orders[p].order_number

\* C12: an initiation whose items are missing or empty is answered 400 and leaves
\* the orders and the payment sessions as they were.
C12_EmptyCartRejected ==
    [][initiation'.empty =>
        /\ initiation'.status = 400
        /\ orders' = orders
        /\ sessions' = sessions]_vars

\* C12 witness: with an order and a session on file, an initiation without items
\* or with an empty list has just been answered 400.
C12_Witness ==
    /\ initiation.status = 400
    /\ initiation.empty
    /\ orders # <<>>
    /\ sessions # <<>>

\* C13: when the insert of the pending order failed and the processor took the
\* request, the initiation succeeds with a new payment session whose metadata
\* has an empty order_id, the discriminator shop_order and one item per cart
\* entry with that entry's variant, quantity and price.
C13_SessionWithoutOrder ==
    (initiation.orderError /\ ~initiation.refused) =>
        /\ initiation.status = 200
        /\ initiation.session = Len(sessions)
        /\ initiation.session # 0
        /\ LET m == sessions[initiation.session]
           IN  /\ m.order_id = 0
               /\ m.type = "shop_order"
               /\ Len(m.items) = Len(initiation.items)
               /\ \A k \in 1..Len(m.items) :
                     /\ m.items[k].variant_id = initiation.items[k].variant_id
                     /\ m.items[k].quantity = initiation.items[k].quantity
                     /\ m.items[k].price = initiation.items[k].price

\* C13 witness: a guest's initiation whose order insert the table refused has
\* just been answered 200 with a session.
C13_Witness ==
    /\ initiation.orderError
    /\ initiation.status = 200
    /\ initiation.session # 0
    /\ orders = <<>>

\* C14: when the processor refused the session after the pending order was
\* inserted, the initiation answers with an error and the order is not pending
\* when the request returns.
C14_NoOrphanedPendingOrder ==
    (initiation.refused /\ initiation.order # 0) =>
        /\ initiation.status >= 400
        /\ orders[initiation.order].status # "pending"

C16_AddItemMerges ==
    /\ \A v \in Variants, q \in 0..MaxQuantity :
          InCart(cart.items, v) =>
            LET after == addItem(cart, CartItem(v, Price(v), 0), q).items
            IN  /\ Len(after) = Len(cart.items)
                /\ \A k \in 1..Len(after) :
                      after[k] = IF cart.items[k].variant_id = v
                                 THEN [cart.items[k] EXCEPT
                                          !.quantity = @ + (IF q = 0 THEN 1 ELSE q)]
                                 ELSE cart.items[k]
    /\ \A v \in Variants :
          LET item == CartItem(v, Price(v), 0)
          IN  addItem(addItem(EmptyStore, item, 1), item, 1).items
                  = <<CartItem(v, Price(v), 2)>>

\* C16 witness: the store holds a single entry, of quantity 2.
C16_Witness ==
    /\ Len(cart.items) = 1
    /\ cart.items[1].quantity = 2
    /\ cart.subtotal = 2 * cart.items[1].price

\* C17: updateQuantity(v, q) with q <= 0 gives the state removeItem(v) gives;
\* with q > 0 it sets the quantity of the entry of v to q and leaves the other
\* entries as they are; for a variant that is not in the cart both operations
\* leave the entries as they are.
C17_UpdateQuantity ==
    \A v \in Variants, q \in -1..MaxQuantity :
        /\ q <= 0 => updateQuantity(cart, v, q) = removeItem(cart, v)
        /\ q > 0 =>
              LET after == updateQuantity(cart, v, q).items
              IN  /\ Len(after) = Len(cart.items)
                  /\ \A k \in 1..Len(after) :
                        after[k] = IF cart.items[k].variant_id = v
                                   THEN [cart.items[k] EXCEPT !.quantity = q]
                                   ELSE cart.items[k]
        /\ ~InCart(cart.items, v) =>
              /\ updateQuantity(cart, v, q).items = cart.items
              /\ removeItem(cart, v).items = cart.items

\* C17 witness: the store holds two entries, the first of quantity 2, so that
\* some variants are in the cart and others are not.
C17_Witness ==
    /\ Len(cart.items) = 2
    /\ cart.items[1].quantity = 2
    /\ cart.items[2].quantity = 1

\* C18: no step changes the subtotal, shipping, tax or total of an order that
\* exists.
C18_TotalsImmutable ==
    [][\A o \in Orders :
          /\ orders'[o].subtotal = orders[o].subtotal
          /\ orders'[o].shipping = orders[o].shipping
          /\ orders'[o].tax = orders[o].tax
          /\ orders'[o].total = orders[o].total]_vars

\* C18 witness: an order that the webhook marked paid and the admin view then
\* marked shipped still has the amounts of its cart.
C18_Witness ==
    \E o \in Orders :
        /\ orders[o].paid_at # 0
        /\ orders[o].shipped_at # 0
        /\ orders[o].shipping = SHIPPING_COST
        /\ orders[o].total = orders[o].subtotal + SHIPPING_COST

C20_OnlyWebhookMarksPaid ==
    [][~WebhookStep =>
        \A o \in Orders :
            /\ orders'[o].status = "paid" => orders[o].status = "paid"
            /\ orders'[o].status = "pending" => orders[o].status = "pending"]_vars

\* C25: a step of the admin view leaves paid_at, the payment-session reference
\* and the payment-intent reference of every order as they were, and changes
\* shipped_at only when the new status is shipped, delivered_at only when it is
\* delivered.
C25_AdminLeavesPaymentFields ==
    [][(~WebhookStep /\ Len(orders') = Len(orders)) =>
        \A o \in Orders :
            /\ orders'[o].paid_at = orders[o].paid_at
            /\ orders'[o].stripe_session_id = orders[o].stripe_session_id
            /\ orders'[o].stripe_payment_intent_id = orders[o].stripe_payment_intent_id
            /\ orders'[o].shipped_at # orders[o].shipped_at
                  => orders'[o].status = "shipped"
            /\ orders'[o].delivered_at # orders[o].delivered_at
                  => orders'[o].status = "delivered"]_vars

\* C25 witness: an order that the webhook marked paid was set to delivered by the
\* admin view and still carries its payment time and payment-intent reference.
C25_Witness ==
    \E o \in Orders :
        /\ orders[o].status = "delivered"
        /\ orders[o].delivered_at # 0
        /\ orders[o].paid_at # 0
        /\ orders[o].stripe_payment_intent_id # 0

\* The orders a session's payment-succeeded event works on: the one its metadata
\* names and the ones the webhook stamped with the session.
OrdersOf(s) ==
    {o \in Orders : o = sessions[s].order_id \/ orders[o].stripe_payment_intent_id = s}

SameEntry(row, entry) ==
    /\ row.product_id = entry.product_id
    /\ row.variant_id = entry.variant_id
    /\ row.product_name = entry.name
    /\ row.size = entry.size
    /\ row.color = entry.color
    /\ row.unit_price = entry.price
    /\ row.quantity = entry.quantity

\* C26: the metadata items of a session are the cart entries of its initiation
\* (product, variant, name, size, color, price, quantity), and the order_items of
\* an order, once created, are one row per metadata item with those same values.
C26_ItemsEqualCartEntries ==
    /\ initiation.session # 0 =>
          LET m == sessions[initiation.session]
          IN  /\ Len(m.items) = Len(initiation.items)
              /\ \A k \in 1..Len(m.items) :
                    /\ m.items[k].product_id = initiation.items[k].product_id
                    /\ m.items[k].variant_id = initiation.items[k].variant_id
                    /\ m.items[k].name = initiation.items[k].name
                    /\ m.items[k].size = initiation.items[k].size
                    /\ m.items[k].color = initiation.items[k].color
                    /\ m.items[k].price = initiation.items[k].price
                    /\ m.items[k].quantity = initiation.items[k].quantity
    /\ \A s \in Sessions : \A o \in OrdersOf(s) :
          ItemsOf(o) # <<>> =>
              /\ Len(ItemsOf(o)) = Len(sessions[s].items)
              /\ \A k \in 1..Len(sessions[s].items) :
                    SameEntry(ItemsOf(o)[k], sessions[s].items[k])

\* C27: a payment-failed event of this shop that names an existing pending order
\* and meets no transient database error leaves that order cancelled.
C27_FailedPaymentCancels ==
    [][(/\ response'.status # 0
        /\ response'.etype = Failed
        /\ response'.mtype = "shop_order"
        /\ response'.oid \in Orders
        /\ orders[response'.oid].status = "pending"
        /\ faults' = faults) =>
            orders'[response'.oid].status = "cancelled"]_vars

\* C28: a store without entries has subtotal, shipping and total 0, that is, it
\* is the state clearCart produces.
C28_EmptyCartIsZero ==
    cart.items = <<>> => cart = clearCart

\* C30: when no invocation is in flight, an order that the webhook marked paid
\* for a session whose metadata lists at least one item has order_items.
C30_PaidWithItems ==
    AllIdle =>
        \A s \in Sessions : \A o \in Orders :
            (/\ orders[o].stripe_payment_intent_id = s
             /\ orders[o].status = "paid"
             /\ Len(sessions[s].items) >= 1) => ItemsOf(o) # <<>>

\* C22: after a payment-succeeded event whose metadata names an order that is not
\* on file has been answered, its items parsing and no database error met, a
\* paid order with the metadata's order number exists.
C22_FallbackForUnknownOrder ==
    (/\ AnsweredPaid
     /\ AllIdle
     /\ endpoint = "stripe"
     /\ sessions[response.sid].order_id = NoSuchOrder
     /\ sessions[response.sid].parses
     /\ faults = 0) =>
        \E o \in Orders : /\ orders[o].order_number = sessions[response.sid].order_number
                          /\ orders[o].status = "paid"

\* C23: an invocation that handles a payment-succeeded event whose items do not
\* parse changes no order and no order_items row, and what it answers is 200.
C23_MalformedMetadataSkipped ==
    [][(\E h \in Handlers :
            /\ handlers[h].pc # "idle"
            /\ handlers'[h] # handlers[h]
            /\ ~Meta(h).parses) =>
        /\ orders' = orders
        /\ order_items' = order_items
        /\ response'.status \in {0, 200}]_vars

\* C24: every order satisfies total = subtotal + shipping + tax in the step that
\* creates it.
C24_TotalIsSumAtCreation ==
    [][\A o \in 1..Len(orders') :
          o \notin Orders =>
              orders'[o].total
                  = orders'[o].subtotal + orders'[o].shipping + orders'[o].tax]_vars

\* C29: when an initiation saved its pending order and opened its session, the
\* session's amount equals the order's total.
C29_SessionAmountIsOrderTotal ==
    (initiation.status = 200 /\ initiation.order # 0) =>
        sessions[initiation.session].amount_total = orders[initiation.order].total

\* C21: an initiation that ends in an error answer, or whose request is lost,
\* leaves the cart store as it was; a step that sends the browser to a page
\* clears the store when that page is the success page with a session id in its
\* address and leaves the store as it was otherwise.
C21_CartKeptUnlessSuccess ==
    [][/\ (requests' # requests /\ (initiation'.status >= 400 \/ initiation'.status = 0))
            => cart' = cart
       /\ page' # page =>
            cart' = IF page'.name = "success" /\ page'.session_id # 0
                    THEN EmptyStore ELSE cart]_vars

\* C21 witness: the processor refused the session, the store still holds its
\* entries and its totals, and the browser has been to the success page without
\* a session id.
C21_Witness ==
    /\ initiation.status = 500
    /\ cart.items # <<>>
    /\ cart.total = cart.subtotal + cart.shipping
    /\ page.name = "success"
    /\ page.session_id = 0
=============================================================================
